---- MODULE Spec2Model ----
(***************************************************************************)
(* The graph visualisation components of qubicdb-ui as one state machine.  *)
(*                                                                         *)
(* One of the renderers (BrainViz, NeuralGraph3D, NeoGraph, NeuralGraph)   *)
(* is mounted on a page and is fed snapshots (nodes, edges) as props.      *)
(* The state is the React state of the mounted component (dimensions,      *)
(* selectedNode, autoRotate), what its effects built (the d3 simulation    *)
(* nodes, the SVG scene group and its transform, the zoom state kept on    *)
(* the svg element) and the callbacks it has scheduled and never owns      *)
(* again (setTimeout timers, d3 transition chains, the rotate interval).   *)
(* BrainViz also has the pointer interactions on its node circles (drag    *)
(* gestures, hover transitions).                                           *)
(*                                                                         *)
(* Beside the graph there is the auth store (zustand with persist) and the *)
(* QubicDBClient, whose requests are in flight until they are answered.    *)
(*                                                                         *)
(* Spec is the graph machine; SpecSelection, SpecDrag, SpecHover and       *)
(* SpecLinks are the same machine with the events of one interaction;      *)
(* SpecAuth and SpecClient are the store and the client in a page without  *)
(* a graph, SpecSession is both together.  SpecConfig, SpecDetail,         *)
(* SpecIndexes and SpecMetrics are the Config page, the confirm dialog of  *)
(* the UserDetail page, the list of the Indexes page and the               *)
(* useMetricsHistory hook, each opened with a session.                     *)
(***************************************************************************)
EXTENDS Integers, Sequences, FiniteSets, TLC

VARIABLES
    renderer,     \* which component is mounted
    mounted,      \* the component is mounted
    crashed,      \* an effect threw (React tears the tree down)
    nodes,        \* props.nodes: the ids of the current snapshot
    edges,        \* props.edges: sequence of [source, target, coFireCount]
    width,        \* dimensions.width (height is always 500)
    selected,     \* selectedNode state (an id, or NoId for null)
    highlighted,  \* ids drawn with the selected style on the canvas
    runs,         \* number of scene-building effect runs so far
    scene,        \* the run whose scene is in the DOM (0: none)
    since,        \* the first run of the svg element or ForceGraph instance in the DOM
    sim,          \* simNodes of the live simulation: id -> [x, y, vx, vy, pinned]
    ticks,        \* ticks of the live simulation so far
    timers,       \* callbacks scheduled and not yet run
    gTransform,   \* transform attribute of the scene group g of the live scene
    svgZoom,      \* the zoom transform d3-zoom keeps on the svg element (__zoom)
    svgAnim,      \* the transition in flight on the svg element
    autoRotate,   \* NeuralGraph3D autoRotate state
    rotating,     \* NeuralGraph3D: the rotate interval is set
    alphaTarget,  \* BrainViz: alphaTarget of the live simulation, in percent
    gestures,     \* BrainViz: the active drag gestures [pointer, id, run]
    circles,      \* BrainViz: the node circles of the live scene: id -> [r, filter, over, anim]
    store,        \* the auth store: [isAuthenticated, user, password, serverUrl]
    storage,      \* localStorage item 'qubicdb-auth' (what persist wrote last)
    inflight,     \* fetch requests sent and not yet answered
    outcome,      \* how the last settled promise of the store or client settled
    route,        \* location.pathname of the router
    editValues,   \* Config: the pending edit of every field (editValues)
    saving,       \* Config: the patch of the pending setMutation
    lastResult,   \* Config: lastResult
    confirmAction, \* UserDetail: the action of the open confirm dialog
    confirmInput, \* UserDetail: the text of the dialog's input
    mutations,    \* UserDetail: the actions whose mutation is pending
    registry,     \* Indexes: the entries of the last registry answer
    filterText,   \* Indexes: filterText
    page,         \* Indexes: page
    maxPoints,    \* useMetricsHistory: the maxPoints it was called with
    history,      \* useMetricsHistory: history
    prevCreated,  \* useMetricsHistory: prevCreated.current
    tickRef,      \* useMetricsHistory: tickRef.current
    arrivals,     \* total_created of every stats update so far, in order
    lastEvent     \* the event or callback handled in the last step

vars == <<renderer, mounted, crashed, nodes, edges, width, selected, highlighted,
          runs, scene, since, sim, ticks, timers, gTransform, svgZoom, svgAnim,
          autoRotate, rotating, alphaTarget, gestures, circles, store, storage,
          inflight, outcome, route, editValues, saving, lastResult,
          confirmAction, confirmInput, mutations, registry, filterText, page,
          maxPoints, history, prevCreated, tickRef, arrivals, lastEvent>>

\* the state of the BrainViz pointer interactions (drag, hover)
pointerVars == <<alphaTarget, gestures, circles>>

\* the state outside the graph components: auth store, its storage, the client
configVars == <<editValues, saving, lastResult>>
detailVars == <<confirmAction, confirmInput, mutations>>
indexesVars == <<registry, filterText, page>>
metricsVars == <<maxPoints, history, prevCreated, tickRef, arrivals>>
pageVars == <<configVars, detailVars, indexesVars, metricsVars>>
appVars == <<store, storage, inflight, outcome, route, pageVars>>

---------------------------------------------------------------------------
(* Bounds of the model *)

MaxRuns == 3       \* scene-building effect runs per behaviour
MaxTicks == 1      \* simulation ticks per scene
MaxInflight == 1   \* fetch requests in flight at a time
MaxEntries == 21   \* entries of one kind in a registry answer
MaxPoints == 2     \* maxPoints useMetricsHistory is called with
MaxUpdates == 4    \* stats updates per behaviour

\* the entity ids of the snapshots, and null
Ids == {"a", "b"}
NoId == "none"

Renderers == {"BrainViz", "NeuralGraph3D", "NeoGraph", "NeuralGraph"}
HasSelection == {"BrainViz", "NeuralGraph3D", "NeoGraph"}

\* container widths getBoundingClientRect can report
Widths == {800, 600}
\* a GraphEdge; the weight is in tenths (0..10 for 0.0..1.0)
Link(s, t, w, c) == [source |-> s, target |-> t, weight |-> w, coFireCount |-> c]
Edge(s, t, c) == Link(s, t, 5, c)

\* the edge lists of the snapshots; whether an edge dangles depends on the
\* nodes of the snapshot it comes with
EdgeLists == {<<>>, <<Edge("a", "b", 2)>>}

\* the optional position hint of an entity (GraphNode.position), a datum of the id
HintX(id) == IF id = "a" THEN 0 ELSE 1
HintY(id) == 0

Max(a, b) == IF a >= b THEN a ELSE b
Min(a, b) == IF a <= b THEN a ELSE b
SetMax(S) == CHOOSE m \in S : \A o \in S : o <= m
SetMin(S) == CHOOSE m \in S : \A o \in S : m <= o

---------------------------------------------------------------------------
(* Values *)

Height == 500

Transform(k, x, y) == [k |-> k, x |-> x, y |-> y]
\* d3.zoomIdentity; the scale k is in percent
Identity == Transform(100, 0, 0)
\* the transform a fit computes from an empty bounding box:
\* scale 0.8 / 0 = Infinity, translate width / 2 - Infinity * 0 = NaN
Degenerate == Transform(-1, 0, 0)
\* transforms a wheel or pan gesture can leave (scaleExtent [0.1, 4])
UserTransforms == {Transform(200, -100, 0)}

Timer(kind, run, link, p) == [kind |-> kind, run |-> run, link |-> link, p |-> p]
NoTimer == Timer("none", 0, 0, 0)

Anim(kind, target, run) == [kind |-> kind, target |-> target, run |-> run]
NoAnim == Anim("none", Identity, 0)

\* an event: its kind, the node it hit, and for a click the selection before it
Event(kind, id) == [kind |-> kind, id |-> id, prev |-> NoId]
ClickEvent(id, prev) == [kind |-> "clickNode", id |-> id, prev |-> prev]

EmptySim == [id \in {} |-> 0]

---------------------------------------------------------------------------
(* BrainViz: the pure parts of the main D3 effect *)

\* simNodes: every node starts at the centre of the view plus its hint;
\* nothing is taken over from the previous simulation and no fx, fy is set
\* (pinned: fx and fy are set; they read 0 while they are not)
InitialSim(n, w) ==
    [id \in n |-> [x |-> (w \div 2) + HintX(id) * 200,
                   y |-> (Height \div 2) + HintY(id) * 200,
                   vx |-> 0, vy |-> 0, pinned |-> FALSE, fx |-> 0, fy |-> 0]]

\* simLinks: every edge of the snapshot becomes a link
SimLinks(es) == [i \in 1..Len(es) |-> es[i]]

\* an edge with an endpoint that is not a node of the snapshot
Dangling(n, e) == e.source \notin n \/ e.target \notin n

\* d3.forceLink(...).id(d => d.id) resolves the endpoints of every link when
\* the force is registered and throws "node not found" for an unknown id
ForceLinkThrows(n, links) ==
    \E i \in DOMAIN links : Dangling(n, links[i])

\* Math.min(Math.ceil(coFireCount / 2), 5)
NumParticles(c) == Min((c + 1) \div 2, 5)

\* the timers one run of the effect sets: a start timer per particle and
\* the delayed zoom-to-fit
EffectTimers(r, links) ==
    {Timer("fit", r, 0, 0)} \cup
    UNION {{Timer("particleStart", r, i, p) :
                p \in 0..(NumParticles(links[i].coFireCount) - 1)} :
           i \in DOMAIN links}

\* the cleanup the effect returns: simulation.stop() and nothing else
EffectCleanup(ts) == ts

---------------------------------------------------------------------------
(* What the effects of a render build.  A scene is the record of the       *)
(* variables crashed, runs, scene, since, sim, ticks, timers, gTransform,  *)
(* svgZoom and svgAnim.                                                    *)

BlankScene ==
    [crashed |-> FALSE, runs |-> 0, scene |-> 0, since |-> 0, sim |-> EmptySim,
     ticks |-> 0, timers |-> {}, gTransform |-> Identity, svgZoom |-> Identity,
     svgAnim |-> NoAnim]

\* the component renders its empty state: the svg (canvas) element leaves the
\* DOM; the timers set earlier stay set
NoScene(st) ==
    [st EXCEPT !.scene = 0, !.since = 0, !.sim = EmptySim, !.ticks = 0,
               !.gTransform = Identity, !.svgZoom = Identity, !.svgAnim = NoAnim]

\* BrainViz main effect, run after the cleanup of the previous run.  It
\* returns at once for an empty node list; otherwise it clears the svg,
\* appends a new group g (no transform attribute), attaches a new zoom
\* behaviour (the svg element keeps its __zoom and its running transition),
\* builds simNodes and simLinks afresh, and sets the timers.
BrainVizEffect(st, n, es, w) ==
    IF st.crashed THEN st
    ELSE IF n = {} THEN [NoScene(st) EXCEPT !.timers = EffectCleanup(st.timers)]
    ELSE IF ForceLinkThrows(n, SimLinks(es))
         THEN [NoScene(st) EXCEPT !.crashed = TRUE,
                                  !.timers = EffectCleanup(st.timers)]
    ELSE LET r == st.runs + 1
             kept == st.scene # 0    \* the svg element was already there
         IN  [crashed |-> FALSE, runs |-> r, scene |-> r,
              since |-> IF kept THEN st.since ELSE r,
              sim |-> InitialSim(n, w), ticks |-> 0,
              timers |-> EffectCleanup(st.timers) \cup EffectTimers(r, SimLinks(es)),
              gTransform |-> Identity,
              svgZoom |-> IF kept THEN st.svgZoom ELSE Identity,
              svgAnim |-> IF kept THEN st.svgAnim ELSE NoAnim]

\* NeoGraph effect: cy.destroy() of the previous instance, then a new
\* cytoscape instance with a fresh layout and an immediate cy.fit; no timers
NeoGraphEffect(st, n) ==
    IF n = {} THEN NoScene(st)
    ELSE LET r == st.runs + 1
         IN  [NoScene(st) EXCEPT !.runs = r, !.scene = r, !.since = r]

\* NeuralGraph3D and NeuralGraph "center on data change" effect, deps
\* [nodes.length]: with a graph on screen it sets a timer for zoomToFit and
\* returns no cleanup.  The ForceGraph instance lives while nodes is non-empty.
CenterEffect(st, oldCount, n) ==
    IF n = {} THEN NoScene(st)
    ELSE IF Cardinality(n) = oldCount THEN st
    ELSE LET r == st.runs + 1
         IN  [st EXCEPT !.runs = r,
                        !.scene = IF st.scene = 0 THEN r ELSE st.scene,
                        !.since = IF st.scene = 0 THEN r ELSE st.since,
                        !.timers = st.timers \cup {Timer("fit", r, 0, 0)}]

\* the effects that run when the component renders with new props or dimensions
RenderEffects(rd, st, oldCount, n, es, w) ==
    CASE rd = "BrainViz" -> BrainVizEffect(st, n, es, w)
      [] rd = "NeoGraph" -> NeoGraphEffect(st, n)
      [] OTHER -> CenterEffect(st, oldCount, n)

\* Mounting.  Every renderer first renders with dimensions {800, 500}.  The
\* resize effect of BrainViz then measures the container and calls
\* setDimensions with a new object, so its main effect runs a second time.
MountScene(rd, n, es, w) ==
    LET first == RenderEffects(rd, BlankScene, -1, n, es, 800)
    IN  IF rd = "BrainViz" THEN BrainVizEffect(first, n, es, w) ELSE first

CurrentScene ==
    [crashed |-> crashed, runs |-> runs, scene |-> scene, since |-> since,
     sim |-> sim, ticks |-> ticks, timers |-> timers, gTransform |-> gTransform,
     svgZoom |-> svgZoom, svgAnim |-> svgAnim]

SetScene(st) ==
    /\ crashed' = st.crashed
    /\ runs' = st.runs
    /\ scene' = st.scene
    /\ since' = st.since
    /\ sim' = st.sim
    /\ ticks' = st.ticks
    /\ timers' = st.timers
    /\ gTransform' = st.gTransform
    /\ svgZoom' = st.svgZoom
    /\ svgAnim' = st.svgAnim

sceneVars == <<crashed, runs, scene, since, sim, ticks, timers, gTransform,
               svgZoom, svgAnim>>

\* the ids drawn with the selected style after a render with selection sel:
\* BrainViz restyles the circles only in the effect on [selectedNode], so a
\* rebuilt scene shows none; NeuralGraph3D colours by selectedNode in
\* nodeThreeObject; a new cytoscape instance has nothing selected
HighlightAfterRender(rd, sel, n) ==
    IF rd = "NeuralGraph3D" THEN {id \in n : id = sel} ELSE {}

---------------------------------------------------------------------------
(* BrainViz: the node circles *)

\* accessCount and energy (in percent) of an entity, data of the id
AccessCount(id) == IF id = "a" THEN 0 ELSE 2
Energy(id) == IF id = "a" THEN 90 ELSE 50

\* r of a node circle, in half pixels: 8 + (d.accessCount ?? 0) * 1.5
BaseR(id) == 16 + AccessCount(id) * 3

\* filter of a node circle: (d.energy ?? 0) > 0.8 ? 'url(#glow)' : null
BaseFilter(id) == IF Energy(id) > 80 THEN "glow" ELSE "none"

\* mouseover target: r 12 + (d.accessCount ?? 0) * 1.5, filter 'url(#pulse-glow)'
HoverR(id) == 24 + AccessCount(id) * 3
HoverFilter(id) == "pulse-glow"

\* a transition on a circle: scheduled, then running, with its target values
HoverAnim(phase, r, filter) == [phase |-> phase, r |-> r, filter |-> filter]
NoHoverAnim == HoverAnim("none", 0, "none")

\* the circles the main effect appends: one per node with its initial
\* attributes; no pointer has entered them and no transition runs on them
InitialCircles(n) ==
    [id \in n |-> [r |-> BaseR(id), filter |-> BaseFilter(id), over |-> FALSE,
                   anim |-> NoHoverAnim]]

\* the circles in the DOM after the effects of a render built scene st
SceneCircles(rd, st, n) ==
    IF rd = "BrainViz" /\ st.scene # 0 THEN InitialCircles(n) ELSE EmptySim

---------------------------------------------------------------------------
(* The auth store (zustand with persist) *)

Null == "null"
DefaultUrl == "http://localhost:6060"

AuthState(auth, user, password, url) ==
    [isAuthenticated |-> auth, user |-> user, password |-> password,
     serverUrl |-> url]

\* the state the store creator returns
InitialStore == AuthState(FALSE, Null, Null, DefaultUrl)

\* persist options: partialize keeps serverUrl and nothing else
Partialize(st) == [serverUrl |-> st.serverUrl]

\* persist writes the partialized state to the item on every set
SetItem(st) == <<Partialize(st)>>

\* persist hydration at creation: the stored partial state, if there is one,
\* is merged over the creator's state
Rehydrate(item) ==
    IF item = <<>> THEN InitialStore
    ELSE [InitialStore EXCEPT !.serverUrl = item[1].serverUrl]

\* a fetch request: the operation that sent it and what it sent
Request(op, user, password, url) ==
    [op |-> op, user |-> user, password |-> password, serverUrl |-> url]

\* what comes back for a request: the HTTP status (0: the fetch fails, no
\* response) and the kind of body (a JSON error envelope with a code, other
\* JSON, or text that is not JSON)
Answer(status, body) == [status |-> status, body |-> body]
NetworkError == Answer(0, "none")

\* response.ok
IsOk(status) == status \in 200..299

\* how the promise of a request settled: the answer it got, resolved with a
\* value or rejected with an error (with the error's code and status)
Outcome(req, answer, settled, value, code, status) ==
    [req |-> req, answer |-> answer, settled |-> settled, value |-> value,
     code |-> code, status |-> status]
NoOutcome ==
    Outcome(Request("none", Null, Null, Null), NetworkError, "none", "none",
            "none", 0)

\* the paths of the routes of App: /login, and the children of the layout
\* route, each inside ProtectedRoute
LoginPath == "/login"
ProtectedPaths ==
    {"/", "/users", "/users/:indexId", "/query", "/metrics", "/config",
     "/settings"}

\* a location no route matches: Routes renders nothing for it
UnmatchedPaths == {"/nowhere"}
Paths == {LoginPath} \cup ProtectedPaths \cup UnmatchedPaths

\* ProtectedRoute without the check of isAuthenticated
UnguardedPath(path, st) == path

\* the location after the router has rendered path with store state st:
\* ProtectedRoute returns <Navigate to="/login" replace /> if !isAuthenticated
GuardedPath(path, st) ==
    IF path \in ProtectedPaths /\ ~st.isAuthenticated THEN LoginPath ELSE path

\* the page on screen
RenderedPage(path, st) ==
    CASE path = LoginPath -> "Login"
      [] path \in ProtectedPaths /\ st.isAuthenticated -> path
      [] OTHER -> "none"

\* the store after a page load
StoreInit(item) ==
    /\ store = Rehydrate(item)
    /\ storage = SetItem(Rehydrate(item))
    /\ inflight = {}
    /\ outcome = NoOutcome

\* Config: the key of a field of the config, and the fields of the config
\* the server answers getConfig with: fields with a FieldDef, a field of an
\* editable section without one, and a field of a read-only section
Key(section, field) == [section |-> section, field |-> field]
NoKey == Key("none", "none")
Config ==
    {Key("lifecycle", "idleThreshold"), Key("matrix", "maxNeurons"),
     Key("security", "allowedOrigins"), Key("security", "readTimeout"),
     Key("server", "httpAddr")}

\* editValues[key] of a key that was never set
Undefined == "undefined"

\* useState({}) of editValues
NoEdits == [k \in Config |-> Undefined]

\* no mutation is pending
NoSave == [kind |-> "none", key |-> NoKey, sections |-> {}, fields |-> {}]

\* the state of the Config page when it mounts
ConfigInit ==
    /\ editValues = NoEdits
    /\ saving = NoSave
    /\ lastResult = Null

\* the state of the UserDetail page when it mounts
DetailInit ==
    /\ confirmAction = Null
    /\ confirmInput = ""
    /\ mutations = {}

\* the state of the Indexes page when it mounts: registry?.entries ?? []
IndexesInit ==
    /\ registry = <<>>
    /\ filterText = <<>>
    /\ page = 0

\* prevCreated.current = null
NoPrev == -1

\* the default of maxPoints
DefaultMaxPoints == 30

\* the state of useMetricsHistory(mp, ...) when it mounts
MetricsInit(mp) ==
    /\ maxPoints = mp
    /\ history = <<>>
    /\ prevCreated = NoPrev
    /\ tickRef = 0
    /\ arrivals = <<>>

PagesInit == ConfigInit /\ DetailInit /\ IndexesInit /\ MetricsInit(DefaultMaxPoints)

\* the pages are unmounted (the location changes, the document reloads):
\* their state is that of the next mount
PagesUnmount ==
    /\ editValues' = NoEdits
    /\ saving' = NoSave
    /\ lastResult' = Null
    /\ confirmAction' = Null
    /\ confirmInput' = ""
    /\ mutations' = {}
    /\ registry' = <<>>
    /\ filterText' = <<>>
    /\ page' = 0
    /\ history' = <<>>
    /\ prevCreated' = NoPrev
    /\ tickRef' = 0
    /\ arrivals' = <<>>
    /\ UNCHANGED maxPoints

\* the location becomes path: the page stays mounted only if it is the same
RouteChange(path) ==
    /\ route' = path
    /\ IF path = route THEN UNCHANGED pageVars ELSE PagesUnmount

\* the page is loaded: the store is created and hydrated from the item, then
\* persist writes the item; nothing is in flight; the app opens at /
AppInit(item) ==
    /\ StoreInit(item)
    /\ route = GuardedPath("/", Rehydrate(item))
    /\ PagesInit

---------------------------------------------------------------------------

\* renderer rd is mounted with a first snapshot in a container of width w
GraphInit(rd, n, es, w) ==
        LET st == MountScene(rd, n, es, w)
        IN  /\ renderer = rd
            /\ mounted = ~st.crashed
            /\ nodes = n
            /\ edges = es
            /\ width = IF rd = "BrainViz" /\ ~st.crashed THEN w ELSE 800
            /\ selected = NoId
            /\ highlighted = {}
            /\ crashed = st.crashed
            /\ runs = st.runs
            /\ scene = st.scene
            /\ since = st.since
            /\ sim = st.sim
            /\ ticks = st.ticks
            /\ timers = st.timers
            /\ gTransform = st.gTransform
            /\ svgZoom = st.svgZoom
            /\ svgAnim = st.svgAnim
            /\ autoRotate = (rd = "NeuralGraph3D")
            /\ rotating = (rd = "NeuralGraph3D" /\ n # {})
            /\ alphaTarget = 0
            /\ gestures = {}
            /\ circles = SceneCircles(rd, st, n)
            /\ lastEvent = Event("mount", NoId)

Init ==
    /\ \E rd \in Renderers, n \in SUBSET Ids, es \in EdgeLists, w \in Widths :
          GraphInit(rd, n, es, w)
    /\ AppInit(<<>>)

---------------------------------------------------------------------------
(* Props and lifecycle *)

\* the parent renders the component with a new snapshot (new nodes and edges
\* arrays, possibly with the same content)
Snapshot(n, es) ==
    /\ mounted
    /\ runs < MaxRuns
    /\ LET st == RenderEffects(renderer, CurrentScene, Cardinality(nodes), n, es, width)
       IN  /\ SetScene(st)
           /\ mounted' = ~st.crashed
    /\ nodes' = n
    /\ edges' = es
    /\ highlighted' = HighlightAfterRender(renderer, selected, n)
    \* a new simulation has alphaTarget 0; the gestures begun on the circles
    \* of the previous scene go on (d3-drag listens on the window)
    /\ alphaTarget' = 0
    /\ circles' = SceneCircles(renderer, RenderEffects(renderer, CurrentScene,
                                   Cardinality(nodes), n, es, width), n)
    /\ lastEvent' = Event("snapshot", NoId)
    /\ UNCHANGED <<renderer, width, selected, autoRotate, rotating, gestures,
                   appVars>>

\* BrainViz window 'resize' listener: updateDimensions sets a new dimensions
\* object, and dimensions is a dependency of the main effect
Resize(w) ==
    /\ renderer = "BrainViz"
    /\ mounted
    /\ runs < MaxRuns
    /\ SetScene(BrainVizEffect(CurrentScene, nodes, edges, w))
    /\ width' = w
    /\ highlighted' = HighlightAfterRender(renderer, selected, nodes)
    /\ alphaTarget' = 0
    /\ circles' = SceneCircles(renderer,
                               BrainVizEffect(CurrentScene, nodes, edges, w), nodes)
    /\ lastEvent' = Event("resize", NoId)
    /\ UNCHANGED <<renderer, mounted, nodes, edges, selected, autoRotate,
                   rotating, gestures, appVars>>

\* the component unmounts: the cleanups run (simulation.stop(), cy.destroy(),
\* clearInterval of the rotate interval, removeEventListener)
Unmount ==
    /\ mounted
    /\ mounted' = FALSE
    /\ SetScene([NoScene(CurrentScene) EXCEPT !.timers = EffectCleanup(timers)])
    /\ rotating' = FALSE
    /\ selected' = NoId
    /\ highlighted' = {}
    /\ alphaTarget' = 0
    /\ circles' = EmptySim
    /\ lastEvent' = Event("unmount", NoId)
    /\ UNCHANGED <<renderer, nodes, edges, width, autoRotate, gestures, appVars>>

---------------------------------------------------------------------------
(* BrainViz: simulation, timers and view *)

\* displacements one tick of the forces can give the free nodes
Deltas == {<<-1, 1>>}

\* one tick of the live d3 simulation (its timer is stopped by the cleanup):
\* a pinned node is put at (fx, fy) with no velocity, every other node gets
\* a velocity and moves by it
Tick ==
    /\ renderer = "BrainViz"
    /\ mounted
    /\ scene # 0
    /\ ticks < MaxTicks
    /\ \E d \in Deltas :
          sim' = [id \in DOMAIN sim |->
                    IF sim[id].pinned
                    THEN [sim[id] EXCEPT !.x = sim[id].fx, !.y = sim[id].fy,
                                         !.vx = 0, !.vy = 0]
                    ELSE [sim[id] EXCEPT !.x = sim[id].x + d[1],
                                         !.y = sim[id].y + d[2],
                                         !.vx = d[1], !.vy = d[2]]]
    /\ ticks' = ticks + 1
    /\ lastEvent' = Event("tick", NoId)
    /\ UNCHANGED <<renderer, mounted, crashed, nodes, edges, width, selected,
                   highlighted, runs, scene, since, timers, gTransform, svgZoom,
                   svgAnim, autoRotate, rotating, pointerVars,
                   appVars>>

GlowR == 20

\* the transform the delayed fit computes from the bounding box of g
\* (taken here as the box of the node glows), scale in percent
FitTransform(simv, w) ==
    LET xs == {simv[id].x : id \in DOMAIN simv}
        ys == {simv[id].y : id \in DOMAIN simv}
        fullWidth == SetMax(xs) - SetMin(xs) + 2 * GlowR
        fullHeight == SetMax(ys) - SetMin(ys) + 2 * GlowR
        midX == (SetMax(xs) + SetMin(xs)) \div 2
        midY == (SetMax(ys) + SetMin(ys)) \div 2
        k == Min((80 * w) \div fullWidth, (80 * Height) \div fullHeight)
    IN  Transform(k, (w \div 2) - ((k * midX) \div 100),
                     (Height \div 2) - ((k * midY) \div 100))

\* delay of a setTimeout timer, in ms
Delay(rd, t) ==
    CASE t.kind = "particleStart" -> 1000 + t.p * 200
      [] t.kind = "fit" /\ rd = "BrainViz" -> 1500
      [] t.kind = "fit" /\ rd = "NeuralGraph3D" -> 1000
      [] OTHER -> 500

IsTimeout(t) == t.kind \in {"fit", "particleStart"}

\* a timeout set no later and with no longer delay runs first
CanFire(t) ==
    ~ \E o \in timers :
        /\ o # t
        /\ IsTimeout(o) /\ IsTimeout(t)
        /\ o.run <= t.run
        /\ Delay(renderer, o) <= Delay(renderer, t)

\* particles of a run whose scene is live read the live simNodes; the
\* node objects of a stopped simulation keep the non-zero coordinates they had
EndpointsSet(t) ==
    IF mounted /\ t.run = scene
    THEN sim[edges[t.link].source].x # 0 /\ sim[edges[t.link].target].x # 0
    ELSE TRUE

\* animateParticle: returns if an endpoint has no x, else starts the
\* transition to the target, whose 'end' starts the return transition, whose
\* 'end' calls animateParticle again
AnimateParticle(t) ==
    IF EndpointsSet(t) THEN {Timer("particleOut", t.run, t.link, t.p)} ELSE {}

\* the svg transition a fit timeout of BrainViz starts.  The g of a replaced
\* scene is detached: getBBox throws or gives an empty box, and an empty box
\* gives a degenerate target.
FitAnims(t) ==
    IF mounted /\ t.run = scene
    THEN {Anim("fit", FitTransform(sim, width), t.run)}
    ELSE IF mounted /\ scene # 0 /\ t.run >= since
         THEN {svgAnim, Anim("fit", Degenerate, t.run)}
         ELSE {svgAnim}

\* the scene that set the timer is gone: the component is unmounted, or the
\* svg element or ForceGraph instance was replaced, or (BrainViz) the effect
\* has cleaned up and rebuilt the scene
Torn(t) ==
    \/ ~mounted
    \/ scene = 0
    \/ t.run < since
    \/ renderer = "BrainViz" /\ t.run # scene

\* a scheduled callback runs: nothing cancels a timeout or a transition chain
FireTimer(t) ==
    /\ t \in timers
    /\ CanFire(t)
    /\ CASE t.kind = "fit" /\ renderer = "BrainViz" ->
              /\ timers' = timers \ {t}
              /\ svgAnim' \in FitAnims(t)
         [] t.kind \in {"particleStart", "particleBack"} ->
              /\ timers' = (timers \ {t}) \cup AnimateParticle(t)
              /\ UNCHANGED svgAnim
         [] t.kind = "particleOut" ->
              /\ timers' = (timers \ {t}) \cup {Timer("particleBack", t.run, t.link, t.p)}
              /\ UNCHANGED svgAnim
         [] OTHER ->
              \* fgRef.current?.zoomToFit(400, 50)
              /\ timers' = timers \ {t}
              /\ UNCHANGED svgAnim
    /\ lastEvent' = Event(IF Torn(t) THEN "staleCallback" ELSE "callback", NoId)
    /\ UNCHANGED <<renderer, mounted, crashed, nodes, edges, width, selected,
                   highlighted, runs, scene, since, sim, ticks, gTransform,
                   svgZoom, autoRotate, rotating, pointerVars,
                   appVars>>

\* the transition on the svg element ends: d3-zoom stores the target in
\* __zoom and emits 'zoom' to the listeners of the behaviour the transition
\* was called with; only the behaviour of the live scene writes the live g
AnimEnd ==
    /\ svgAnim.kind # "none"
    /\ svgZoom' = svgAnim.target
    /\ gTransform' = IF svgAnim.run = scene THEN svgAnim.target ELSE gTransform
    /\ svgAnim' = NoAnim
    /\ lastEvent' = Event(CASE svgAnim.kind = "reset" -> "resetDone"
                             [] svgAnim.run = scene -> "fitDone"
                             [] OTHER -> "staleFitDone", NoId)
    /\ UNCHANGED <<renderer, mounted, crashed, nodes, edges, width, selected,
                   highlighted, runs, scene, since, sim, ticks, timers,
                   autoRotate, rotating, pointerVars,
                   appVars>>

\* Reset View button: a transition on the svg calling the transform of a new
\* d3.zoom() instance, which has no 'zoom' listener (run 0)
ResetView ==
    /\ renderer = "BrainViz"
    /\ mounted
    /\ scene # 0
    /\ svgAnim' = Anim("reset", Identity, 0)
    /\ lastEvent' = Event("resetView", NoId)
    /\ UNCHANGED <<renderer, mounted, crashed, nodes, edges, width, selected,
                   highlighted, runs, scene, since, sim, ticks, timers,
                   gTransform, svgZoom, autoRotate, rotating, pointerVars,
                   appVars>>

\* a wheel or pan gesture on the svg: the zoom behaviour of the live scene
\* interrupts the transition, computes the new transform from __zoom, stores
\* it and writes it on g
UserZoom(tr) ==
    /\ renderer = "BrainViz"
    /\ mounted
    /\ scene # 0
    /\ LET new == IF svgZoom = Degenerate THEN Degenerate ELSE tr
       IN  /\ svgZoom' = new
           /\ gTransform' = new
    /\ svgAnim' = NoAnim
    /\ lastEvent' = Event("zoom", NoId)
    /\ UNCHANGED <<renderer, mounted, crashed, nodes, edges, width, selected,
                   highlighted, runs, scene, since, sim, ticks, timers,
                   autoRotate, rotating, pointerVars,
                   appVars>>

---------------------------------------------------------------------------
(* BrainViz: dragging a node (d3.drag on the node circles) *)

\* the pointers that can drag at the same time (mouse, touches)
Pointers == {"p1", "p2"}

\* event.x, event.y of a 'drag' event: where the pointer puts the node
PointerPositions == {<<310, 260>>}

Gesture(p, id, run) == [pointer |-> p, id |-> id, run |-> run]

\* the gestures of the drag behaviour of one run of the main effect
\* (event.active counts the gestures of the behaviour that dispatches)
ActiveGestures(run) == {g \in gestures : g.run = run}

\* a drag event: its kind, the node, whether it hit the live scene, and the
\* event's x, y and active
DragEvent(kind, id, live, x, y, active) ==
    [kind |-> kind, id |-> id, prev |-> NoId, live |-> live, x |-> x, y |-> y,
     active |-> active]

\* 'end' handler with the alpha target left as it is
EndAlphaTargetKeep(active, cur) == cur

\* 'start' handler: if (!event.active) simulation.alphaTarget(0.3).restart()
StartAlphaTarget(active, cur) == IF active = 0 THEN 30 ELSE cur

\* 'end' handler: if (!event.active) simulation.alphaTarget(0)
EndAlphaTarget(active, cur) == IF active = 0 THEN 0 ELSE cur

\* a pointer goes down on the circle of node id: 'start' with event.active the
\* number of gestures active before it; d.fx = d.x, d.fy = d.y
DragStart(p, id) ==
    /\ renderer = "BrainViz"
    /\ mounted
    /\ scene # 0
    /\ id \in DOMAIN sim
    /\ \A g \in gestures : g.pointer # p
    /\ LET active == Cardinality(ActiveGestures(scene))
       IN  /\ alphaTarget' = StartAlphaTarget(active, alphaTarget)
           /\ lastEvent' = DragEvent("dragStart", id, TRUE, sim[id].x, sim[id].y,
                                     active)
    /\ sim' = [sim EXCEPT ![id].pinned = TRUE, ![id].fx = sim[id].x,
                          ![id].fy = sim[id].y]
    /\ gestures' = gestures \cup {Gesture(p, id, scene)}
    /\ UNCHANGED <<renderer, mounted, crashed, nodes, edges, width, selected,
                   highlighted, runs, scene, since, ticks, timers, gTransform,
                   svgZoom, svgAnim, autoRotate, rotating, circles, appVars>>

\* the pointer of gesture g moves: 'drag'; d.fx = event.x, d.fy = event.y.
\* d is a node of the simulation of the run the gesture began in: after a
\* rebuild the handler writes a node of the stopped simulation.
DragMove(g, pos) ==
    /\ g \in gestures
    /\ LET live == mounted /\ g.run = scene
       IN  /\ sim' = IF live
                     THEN [sim EXCEPT ![g.id].pinned = TRUE, ![g.id].fx = pos[1],
                                      ![g.id].fy = pos[2]]
                     ELSE sim
           /\ lastEvent' = DragEvent("dragMove", g.id, live, pos[1], pos[2],
                                     Cardinality(ActiveGestures(g.run)))
    /\ UNCHANGED <<renderer, mounted, crashed, nodes, edges, width, selected,
                   highlighted, runs, scene, since, ticks, timers, gTransform,
                   svgZoom, svgAnim, autoRotate, rotating, pointerVars, appVars>>

\* the pointer of gesture g goes up: 'end' with event.active the number of
\* gestures still active; d.fx = null, d.fy = null
DragEnd(g) ==
    /\ g \in gestures
    /\ gestures' = gestures \ {g}
    /\ LET live == mounted /\ g.run = scene
           active == Cardinality(ActiveGestures(g.run) \ {g})
       IN  /\ sim' = IF live
                     THEN [sim EXCEPT ![g.id].pinned = FALSE, ![g.id].fx = 0,
                                      ![g.id].fy = 0]
                     ELSE sim
           /\ alphaTarget' = IF live THEN EndAlphaTarget(active, alphaTarget)
                             ELSE alphaTarget
           /\ lastEvent' = DragEvent("dragEnd", g.id, live, 0, 0, active)
    /\ UNCHANGED <<renderer, mounted, crashed, nodes, edges, width, selected,
                   highlighted, runs, scene, since, ticks, timers, gTransform,
                   svgZoom, svgAnim, autoRotate, rotating, circles, appVars>>

---------------------------------------------------------------------------
(* BrainViz: hovering a node (mouseover, mouseout and their transitions) *)

\* mouseout handler with the filter left as the hover set it
MouseOutTargetKeep(id) == HoverAnim("scheduled", BaseR(id), HoverFilter(id))

\* mouseover handler: transition().duration(200) to the hover radius and filter
MouseOverTarget(id) == HoverAnim("scheduled", HoverR(id), HoverFilter(id))

\* mouseout handler: transition().duration(200) to 8 + accessCount * 1.5 and
\* to the glow filter if energy > 0.8, else to no filter
MouseOutTarget(id) == HoverAnim("scheduled", BaseR(id), BaseFilter(id))

\* the pointer enters the circle of node id; the new transition replaces
\* the one scheduled or running on the circle
MouseOver(id) ==
    /\ renderer = "BrainViz"
    /\ mounted
    /\ id \in DOMAIN circles
    /\ ~circles[id].over
    /\ circles' = [circles EXCEPT ![id].over = TRUE, ![id].anim = MouseOverTarget(id)]
    /\ lastEvent' = Event("mouseover", id)
    /\ UNCHANGED <<renderer, mounted, nodes, edges, width, selected, highlighted,
                   sceneVars, autoRotate, rotating, alphaTarget, gestures, appVars>>

\* the pointer leaves the circle of node id
MouseOut(id) ==
    /\ renderer = "BrainViz"
    /\ mounted
    /\ id \in DOMAIN circles
    /\ circles[id].over
    /\ circles' = [circles EXCEPT ![id].over = FALSE, ![id].anim = MouseOutTarget(id)]
    /\ lastEvent' = Event("mouseout", id)
    /\ UNCHANGED <<renderer, mounted, nodes, edges, width, selected, highlighted,
                   sceneVars, autoRotate, rotating, alphaTarget, gestures, appVars>>

\* the radius a frame in the middle of a transition sets: a value between
\* the one the circle had and the target; every radius strictly between the
\* pre-hover and the hover radius is written as the one half way
BetweenR(id, from, to) == IF from = to THEN to ELSE (BaseR(id) + HoverR(id)) \div 2

\* a frame of the transition on the circle of node id: the filter, a string
\* without numbers (or null, which removes the attribute), is set at once;
\* r is interpolated from the value it has
HoverFrame(id) ==
    /\ id \in DOMAIN circles
    /\ circles[id].anim.phase = "scheduled"
    /\ circles' = [circles EXCEPT
                      ![id].filter = circles[id].anim.filter,
                      ![id].r = BetweenR(id, circles[id].r, circles[id].anim.r),
                      ![id].anim.phase = "running"]
    /\ lastEvent' = Event("hoverFrame", id)
    /\ UNCHANGED <<renderer, mounted, nodes, edges, width, selected, highlighted,
                   sceneVars, autoRotate, rotating, alphaTarget, gestures, appVars>>

\* the transition on the circle of node id ends: the attributes have the
\* target values
HoverEnd(id) ==
    /\ id \in DOMAIN circles
    /\ circles[id].anim.phase # "none"
    /\ circles' = [circles EXCEPT
                      ![id].filter = circles[id].anim.filter,
                      ![id].r = circles[id].anim.r,
                      ![id].anim = NoHoverAnim]
    /\ lastEvent' = Event(IF circles[id].over THEN "hoverInDone" ELSE "hoverOutDone", id)
    /\ UNCHANGED <<renderer, mounted, nodes, edges, width, selected, highlighted,
                   sceneVars, autoRotate, rotating, alphaTarget, gestures, appVars>>

---------------------------------------------------------------------------
(* Selection *)

\* a canvas with the nodes of the snapshot is on screen
Displayed == mounted /\ ~crashed /\ nodes # {}

\* BrainViz and NeuralGraph3D: setSelectedNode(prev => prev === id ? null : id)
ToggleSelection(prev, id) == IF prev = id THEN NoId ELSE id

\* NeoGraph tap handler: setSelectedNode(nodeData) when the node is found
TapSelection(prev, id) == id

\* the selectedNode state after a click on node id
ClickSelection(rd, prev, id) ==
    IF rd = "NeoGraph" THEN TapSelection(prev, id) ELSE ToggleSelection(prev, id)

\* StyleSelected with the stroke set on the newly selected circle only, the
\* circles styled before left as they are
StyleSelectedKeep(sel, n) == (highlighted \cap n) \cup {id \in n : id = sel}

\* BrainViz effect on [selectedNode]: every circle of the scene gets the
\* selected stroke iff its id is selectedNode.  NeuralGraph3D colours a node
\* white iff its id is selectedNode.
StyleSelected(sel, n) == {id \in n : id = sel}

\* the ids drawn as selected after a click on node id; cytoscape itself marks
\* the tapped node selected and unselects the others
HighlightAfterClick(rd, sel, n, id) ==
    IF rd = "NeoGraph" THEN {id} ELSE StyleSelected(sel, n)

\* a click (tap) on the node with this id
ClickNode(id) ==
    /\ renderer \in HasSelection
    /\ Displayed
    /\ id \in nodes
    /\ selected' = ClickSelection(renderer, selected, id)
    /\ highlighted' = HighlightAfterClick(renderer, selected', nodes, id)
    \* NeuralGraph3D handleNodeClick: setAutoRotate(false); the effect on
    \* [autoRotate] clears the interval
    /\ autoRotate' = IF renderer = "NeuralGraph3D" THEN FALSE ELSE autoRotate
    /\ rotating' = IF renderer = "NeuralGraph3D" THEN FALSE ELSE rotating
    /\ lastEvent' = ClickEvent(id, selected)
    /\ UNCHANGED <<renderer, mounted, nodes, edges, width, sceneVars,
                   pointerVars, appVars>>

\* the selectedNode state after a click on the background: only NeoGraph
\* has a handler for it (cy.on('tap') with evt.target === cy)
BackgroundSelection(rd, prev) == IF rd = "NeoGraph" THEN NoId ELSE prev

\* a click on the canvas that hits no node
ClickBackground ==
    /\ renderer \in HasSelection
    /\ Displayed
    /\ selected' = BackgroundSelection(renderer, selected)
    /\ highlighted' = IF renderer = "NeoGraph" THEN {} ELSE highlighted
    /\ lastEvent' = Event("clickBackground", NoId)
    /\ UNCHANGED <<renderer, mounted, nodes, edges, width, sceneVars,
                   autoRotate, rotating, pointerVars,
                   appVars>>

\* the entity whose details the panel shows (NoId: none).  BrainViz and
\* NeuralGraph3D look selectedNode up in the current nodes; NeoGraph keeps
\* the GraphNode object of the click and shows it as it is.
PanelEntity ==
    IF ~Displayed \/ renderer \notin HasSelection THEN NoId
    ELSE IF renderer = "NeoGraph" THEN selected
    ELSE IF selected \in nodes THEN selected ELSE NoId

\* the panel's close button is on screen
CloseButtonShown ==
    /\ Displayed
    /\ renderer \in HasSelection
    /\ selected # NoId
    /\ renderer = "BrainViz" => selected \in nodes

\* the panel's close button: setSelectedNode(null)
ClosePanel ==
    /\ CloseButtonShown
    /\ selected' = NoId
    \* cytoscape's own selection is not touched
    /\ highlighted' = IF renderer = "NeoGraph" THEN highlighted
                      ELSE StyleSelected(NoId, nodes)
    /\ lastEvent' = Event("closePanel", NoId)
    /\ UNCHANGED <<renderer, mounted, nodes, edges, width, sceneVars,
                   autoRotate, rotating, pointerVars,
                   appVars>>

---------------------------------------------------------------------------
(* NeuralGraph3D and NeoGraph controls *)

\* Rotate button: setAutoRotate(!autoRotate); the effect on [autoRotate]
\* clears the interval and sets a new one if autoRotate is on
ToggleAutoRotate ==
    /\ renderer = "NeuralGraph3D"
    /\ Displayed
    /\ autoRotate' = ~autoRotate
    /\ rotating' = ~autoRotate
    /\ lastEvent' = Event("toggleRotate", NoId)
    /\ UNCHANGED <<renderer, mounted, nodes, edges, width, selected,
                   highlighted, sceneVars, pointerVars, appVars>>

\* the rotate interval's callback: fgRef.current?.cameraPosition(...)
RotateTick ==
    /\ rotating
    /\ lastEvent' = Event("rotateTick", NoId)
    /\ UNCHANGED <<renderer, mounted, nodes, edges, width, selected,
                   highlighted, sceneVars, autoRotate, rotating, pointerVars,
                   appVars>>

\* the user orbits or zooms the 3D camera with the pointer: the orbit
\* controls of ForceGraph3D (enableNavigationControls, controlType "orbit")
\* move the camera; the component passes no handler for it and sets no state
CameraInteract ==
    /\ renderer = "NeuralGraph3D"
    /\ Displayed
    /\ lastEvent' = Event("cameraInteract", NoId)
    /\ UNCHANGED <<renderer, mounted, nodes, edges, width, selected,
                   highlighted, sceneVars, autoRotate, rotating, pointerVars,
                   appVars>>

\* Fit button (NeuralGraph3D zoomToFit, NeoGraph cy.fit): at once, no timer
ManualFit ==
    /\ renderer \in {"NeuralGraph3D", "NeoGraph"}
    /\ Displayed
    /\ lastEvent' = Event("fit", NoId)
    /\ UNCHANGED <<renderer, mounted, nodes, edges, width, selected,
                   highlighted, sceneVars, autoRotate, rotating, pointerVars,
                   appVars>>

---------------------------------------------------------------------------
(* The auth store: login, logout, setServerUrl, and a page reload *)

Users == {"admin", "bob"}
Passwords == {"", "qubicdb"}
Urls == {DefaultUrl, "http://custom:9090"}

\* what POST /admin/login can come back with
LoginAnswers == {Answer(200, "json"), Answer(401, "envelope"), NetworkError}

\* no graph component is on the page
NoGraph ==
    /\ renderer = "none"
    /\ mounted = FALSE
    /\ nodes = {}
    /\ edges = <<>>
    /\ width = 800
    /\ selected = NoId
    /\ highlighted = {}
    /\ crashed = FALSE
    /\ runs = 0
    /\ scene = 0
    /\ since = 0
    /\ sim = EmptySim
    /\ ticks = 0
    /\ timers = {}
    /\ gTransform = Identity
    /\ svgZoom = Identity
    /\ svgAnim = NoAnim
    /\ autoRotate = FALSE
    /\ rotating = FALSE
    /\ alphaTarget = 0
    /\ gestures = {}
    /\ circles = EmptySim
    /\ lastEvent = Event("load", NoId)

graphVars == <<renderer, mounted, nodes, edges, width, selected, highlighted,
               sceneVars, autoRotate, rotating, pointerVars>>

\* an event of the store: its kind and the user of the store before it
StoreEvent(kind, user) == [kind |-> kind, id |-> NoId, prev |-> user]

\* login with the store set whatever the response is
LoginStoreAlways(st, req, ans) ==
    AuthState(TRUE, req.user, req.password, req.serverUrl)

\* logout with the whole state reset
LogoutStoreReset(st) == InitialStore

\* login, after the fetch: if (response.ok) set({isAuthenticated: true, user,
\* password, serverUrl}); nothing is set otherwise or when the fetch throws
LoginStore(st, req, ans) ==
    IF IsOk(ans.status)
    THEN AuthState(TRUE, req.user, req.password, req.serverUrl)
    ELSE st

\* what login returns: true if response.ok, false otherwise and in the catch
LoginOutcome(req, ans) ==
    Outcome(req, ans, "resolved", IF IsOk(ans.status) THEN "true" ELSE "false",
            "none", 0)

\* logout: set({isAuthenticated: false, user: null, password: null})
LogoutStore(st) ==
    [st EXCEPT !.isAuthenticated = FALSE, !.user = Null, !.password = Null]

\* login(user, password, serverUrl) is called: the POST is sent
Login(u, p, url) ==
    /\ Cardinality(inflight) < MaxInflight
    /\ inflight' = inflight \cup {Request("login", u, p, url)}
    /\ lastEvent' = StoreEvent("login", store.user)
    /\ UNCHANGED <<graphVars, store, storage, outcome, route, pageVars>>

\* the POST of a login settles and login returns to handleSubmit of the
\* Login page: navigate('/') if it returned true
LoginSettle(req, ans) ==
    /\ req \in inflight
    /\ req.op = "login"
    /\ inflight' = inflight \ {req}
    /\ store' = LoginStore(store, req, ans)
    /\ storage' = IF IsOk(ans.status) THEN SetItem(LoginStore(store, req, ans))
                  ELSE storage
    /\ outcome' = LoginOutcome(req, ans)
    /\ RouteChange(IF IsOk(ans.status)
                   THEN GuardedPath("/", LoginStore(store, req, ans))
                   ELSE route)
    /\ lastEvent' = StoreEvent("loginSettled", store.user)
    /\ UNCHANGED graphVars

\* logout (the Logout button of the Layout); the routes render again
Logout ==
    /\ store' = LogoutStore(store)
    /\ storage' = SetItem(LogoutStore(store))
    /\ RouteChange(GuardedPath(route, LogoutStore(store)))
    /\ lastEvent' = StoreEvent("logout", store.user)
    /\ UNCHANGED <<graphVars, inflight, outcome>>

\* setServerUrl: set({serverUrl: url})
SetServerUrl(url) ==
    /\ store' = [store EXCEPT !.serverUrl = url]
    /\ storage' = SetItem([store EXCEPT !.serverUrl = url])
    /\ lastEvent' = StoreEvent("setServerUrl", store.user)
    /\ UNCHANGED <<graphVars, inflight, outcome, route, pageVars>>

\* the page is reloaded: the store is created again and hydrated from the
\* item persist wrote; the requests of the old page are dropped
Reload ==
    /\ store' = Rehydrate(storage)
    /\ storage' = SetItem(Rehydrate(storage))
    /\ inflight' = {}
    /\ outcome' = NoOutcome
    /\ route' = GuardedPath(route, Rehydrate(storage))
    /\ PagesUnmount
    /\ lastEvent' = StoreEvent("reload", store.user)
    /\ UNCHANGED graphVars

\* the location changes to path (a link of the Layout, history back or
\* forward, navigate) and the routes render
Navigate(path) ==
    /\ RouteChange(GuardedPath(path, store))
    /\ lastEvent' = Event("navigate", path)
    /\ UNCHANGED <<graphVars, store, storage, inflight, outcome>>

---------------------------------------------------------------------------
(* QubicDBClient *)

\* the methods that send Authorization: headers: this.getAdminHeaders()
AdminMethods ==
    {"getConfig", "getConfigSection", "setConfig", "adminGetIndexDetail",
     "adminResetIndex", "adminDeleteIndex", "adminExportIndex",
     "adminGetDaemonStatus", "adminPauseDaemons", "adminResumeDaemons",
     "adminForceGC", "adminForcePersist"}

\* the public methods of the client
Methods ==
    {"health", "getGlobalStats", "listRegistryEntries", "getRegistryEntry",
     "createRegistryEntry", "deleteRegistryEntry", "findOrCreateRegistryEntry",
     "listIndexes", "getIndexStats", "getBrainState", "wakeIndex", "sleepIndex",
     "listNeurons", "getNeuron", "addNeuron", "search", "getContext",
     "getGraphData", "getSynapses", "getActivity"} \cup AdminMethods

\* what a QubicDB endpoint can come back with
Answers ==
    {Answer(200, "json"), Answer(200, "text"), Answer(401, "envelope"),
     Answer(503, "json"), Answer(503, "text"), NetworkError}

\* code and status of the error envelope that comes with an HTTP status
EnvelopeCode(status) ==
    IF status = 401 THEN "UNAUTHORIZED" ELSE "SERVICE_UNAVAILABLE"
EnvelopeStatus(status) == status

\* getBasicAuthHeader: 'Basic ' + btoa(user:password) if user && password
\* (neither null nor empty), else null; written as the pair it encodes
BasicAuthHeader(st) ==
    IF st.user \notin {Null, ""} /\ st.password \notin {Null, ""}
    THEN <<st.user, st.password>>
    ELSE <<Null, Null>>

\* the request a method sends: to getBaseUrl(), admin methods with
\* getAdminHeaders()
ClientRequest(m, st) ==
    IF m \in AdminMethods
    THEN Request(m, BasicAuthHeader(st)[1], BasicAuthHeader(st)[2], st.serverUrl)
    ELSE Request(m, Null, Null, st.serverUrl)

\* request<T>: a failed fetch rejects; a response that is not ok throws
\* QubicDBError(body) if the body is JSON with a code, else
\* Error(`HTTP ${status}: ...`); an ok response resolves with response.json(),
\* which rejects if the body is not JSON
RequestOutcome(req, ans) ==
    CASE ans.status = 0 ->
           Outcome(req, ans, "rejected", "TypeError", "none", 0)
      [] ans.status # 0 /\ ~IsOk(ans.status) /\ ans.body = "envelope" ->
           Outcome(req, ans, "rejected", "QubicDBError", EnvelopeCode(ans.status),
                   EnvelopeStatus(ans.status))
      [] ans.status # 0 /\ ~IsOk(ans.status) /\ ans.body # "envelope" ->
           Outcome(req, ans, "rejected", "Error", "none", ans.status)
      [] IsOk(ans.status) /\ ans.body = "text" ->
           Outcome(req, ans, "rejected", "SyntaxError", "none", 0)
      [] OTHER ->
           Outcome(req, ans, "resolved", "json", "none", 0)

\* adminExportIndex: fetch, then return response.blob(); response.ok is not
\* looked at
ExportOutcome(req, ans) ==
    IF ans.status = 0
    THEN Outcome(req, ans, "rejected", "TypeError", "none", 0)
    ELSE Outcome(req, ans, "resolved", "blob", "none", 0)

\* every method but adminExportIndex goes through request<T> (listIndexes,
\* getConfigSection and listNeurons through another method of the client)
ClientOutcome(req, ans) ==
    IF req.op = "adminExportIndex" THEN ExportOutcome(req, ans)
    ELSE RequestOutcome(req, ans)

\* a method of the client is called: the request is sent
ClientCall(m) ==
    /\ Cardinality(inflight) < MaxInflight
    /\ inflight' = inflight \cup {ClientRequest(m, store)}
    /\ lastEvent' = StoreEvent("call", store.user)
    /\ UNCHANGED <<graphVars, store, storage, outcome, route, pageVars>>

\* the request of a method is answered and the method's promise settles
ClientSettle(req, ans) ==
    /\ req \in inflight
    /\ req.op \in Methods
    /\ inflight' = inflight \ {req}
    /\ outcome' = ClientOutcome(req, ans)
    /\ lastEvent' = StoreEvent("callSettled", store.user)
    /\ UNCHANGED <<graphVars, store, storage, route, pageVars>>

---------------------------------------------------------------------------
(* How the renderers draw an edge *)

\* weights (in tenths) and co-fire counts of the edges drawn
LinkWeights == {2, 5}
CoFires == {0, 1, 10}

\* snapshots of one or two edges between a and b
LinkLists ==
    LET ab == {Link("a", "b", w, c) : w \in LinkWeights, c \in CoFires}
        ba == {Link("b", "a", w, c) : w \in LinkWeights, c \in CoFires}
    IN  {<<e>> : e \in ab} \cup {<<e, f>> : e \in ab, f \in ba}

\* stroke width of an edge, in tenths of a pixel
\*   BrainViz       1 + weight * 4
\*   NeoGraph       1 + weight * 4
\*   NeuralGraph    1 + weight * 3 + min(coFireCount, 10) * 0.2
\*   NeuralGraph3D  0.5 + weight * 2 + min(coFireCount, 15) * 0.1
StrokeWidth(rd, e) ==
    CASE rd = "BrainViz" -> 10 + e.weight * 4
      [] rd = "NeoGraph" -> 10 + e.weight * 4
      [] rd = "NeuralGraph" -> 10 + e.weight * 3 + Min(e.coFireCount, 10) * 2
      [] OTHER -> 5 + e.weight * 2 + Min(e.coFireCount, 15)

\* opacity of an edge, in thousandths
\*   BrainViz       stroke-opacity 0.3 + weight * 0.5
\*   NeoGraph       opacity 0.4 + weight * 0.5
\*   NeuralGraph    colour alpha 0.3 + weight * 0.7
\*   NeuralGraph3D  colour alpha 0.3 + weight * 0.7, times linkOpacity 0.8
StrokeOpacity(rd, e) ==
    CASE rd = "BrainViz" -> 300 + e.weight * 50
      [] rd = "NeoGraph" -> 400 + e.weight * 50
      [] rd = "NeuralGraph" -> 300 + e.weight * 70
      [] OTHER -> 8 * (30 + e.weight * 7)

\* NeuralGraph3D getLinkParticles: Math.min(Math.floor(coFire / 3) + 1, 5)
LinkParticles3D(c) == Min((c \div 3) + 1, 5)

\* the particles on edge i: BrainViz sets a start timer for each particle it
\* appends, NeuralGraph3D hands getLinkParticles to ForceGraph3D
ParticlesOnEdge(i) ==
    IF renderer = "BrainViz"
    THEN Cardinality({t \in timers : t.kind = "particleStart" /\ t.run = scene
                                      /\ t.link = i})
    ELSE LinkParticles3D(edges[i].coFireCount)

---------------------------------------------------------------------------
(* NeuralGraph3D: graphData *)

HintZ(id) == 0

Axes == {"x", "y", "z"}

\* n.position?.[i] of an axis
Hint(ax, id) ==
    CASE ax = "x" -> HintX(id)
      [] ax = "y" -> HintY(id)
      [] OTHER -> HintZ(id)

\* graphData.nodes: fx, fy, fz are n.position[i] * 100 where n.position[i]
\* is truthy (given and not 0), else undefined: the axes of a node that
\* the force engine keeps fixed
FixedAxes3D(id) == {ax \in Axes : Hint(ax, id) # 0}
FixedCoord3D(ax, id) == Hint(ax, id) * 100

---------------------------------------------------------------------------
(* The pages behind the layout, each opened with a session *)

\* the store after a login that the server accepted
LoggedIn == AuthState(TRUE, "admin", "qubicdb", DefaultUrl)

\* the page of path is on screen
OnPage(path) == RenderedPage(route, store) = path

\* the page at path is open with a session and without a graph
PageInit(path) ==
    /\ NoGraph
    /\ store = LoggedIn
    /\ storage = SetItem(LoggedIn)
    /\ inflight = {}
    /\ outcome = NoOutcome
    /\ route = path

---------------------------------------------------------------------------
(* The Config page *)

\* SECTION_META: the fields of a section that have a FieldDef, with their
\* type; a section without an entry has none (meta?.fields ?? [])
SECTION_META(section) ==
    CASE section = "lifecycle" ->
           {[key |-> "idleThreshold", type |-> "duration"],
            [key |-> "sleepThreshold", type |-> "duration"],
            [key |-> "dormantThreshold", type |-> "duration"]}
      [] section = "daemons" ->
           {[key |-> "decayInterval", type |-> "duration"],
            [key |-> "consolidateInterval", type |-> "duration"],
            [key |-> "pruneInterval", type |-> "duration"],
            [key |-> "persistInterval", type |-> "duration"],
            [key |-> "reorgInterval", type |-> "duration"]}
      [] section = "worker" -> {[key |-> "maxIdleTime", type |-> "duration"]}
      [] section = "registry" -> {[key |-> "enabled", type |-> "bool"]}
      [] section = "matrix" -> {[key |-> "maxNeurons", type |-> "int"]}
      [] section = "security" ->
           {[key |-> "allowedOrigins", type |-> "string"],
            [key |-> "maxRequestBody", type |-> "int"]}
      [] section = "vector" -> {[key |-> "alpha", type |-> "float"]}
      [] OTHER -> {}

READONLY_SECTIONS == {"server", "admin", "storage"}

\* fields.find(f => f.key === field), as the set of what it finds
FieldDefs(k) == {f \in SECTION_META(k.section) : f.key = k.field}

\* the type of the FieldDef of k
FieldType(k) ==
    IF FieldDefs(k) = {} THEN "string" ELSE (CHOOSE f \in FieldDefs(k) : TRUE).type

\* a page that renders the input and the Save button for every field
HasInputAlways(k) == TRUE

\* field rendering: the input (or select) and the Save button of a field
\* are rendered only if the field has a FieldDef, else its value as text
HasInput(k) == FieldDefs(k) # {}

\* what the user can leave in an input
EditTexts == {"", "30", "true"}

\* parseInt(raw, 10) and parseFloat(raw) give a number for "30", else NaN
Numeric(raw) == raw = "30"

\* the value sent for a raw edit of a field of a type
Convert(type, raw) ==
    CASE type = "bool" ->
           [type |-> "boolean", text |-> IF raw = "true" THEN "true" ELSE "false"]
      [] type \in {"int", "float"} ->
           [type |-> "number", text |-> IF Numeric(raw) THEN raw ELSE "NaN"]
      [] OTHER -> [type |-> "string", text |-> raw]

\* a field of a patch, with the edit it was made from
PatchField(k, raw) ==
    [section |-> k.section, field |-> k.field, raw |-> raw,
     value |-> Convert(FieldType(k), raw)]

\* handleSaveField: the patch { [section]: { [field]: value } }
SaveFieldPatch(k, ev) ==
    [kind |-> "field", key |-> k, sections |-> {k.section},
     fields |-> {PatchField(k, ev[k])}]

\* handleSaveAll: every entry whose value is not '' creates patch[section];
\* the field is added if it has a FieldDef.  The keys of editValues are
\* `${section}.${field}` of names that hold no '.', which split('.') takes
\* apart again
SaveAllPatch(ev) ==
    LET set == {k \in Config : ev[k] \notin {Undefined, ""}}
    IN  [kind |-> "all", key |-> NoKey,
         sections |-> {k.section : k \in set},
         fields |-> {PatchField(k, ev[k]) : k \in {j \in set : FieldDefs(j) # {}}}]

\* hasEdits: the Save All button is rendered
HasEdits(ev) == \E k \in Config : ev[k] \notin {Undefined, ""}

\* the user changes the input or the select of a field
FieldChange(k, text) ==
    /\ OnPage("/config")
    /\ HasInput(k)
    /\ FieldType(k) = "bool" => text \in {"true", "false"}
    /\ editValues' = [editValues EXCEPT ![k] = text]
    /\ lastEvent' = Event("fieldChange", k.field)
    /\ UNCHANGED <<graphVars, store, storage, inflight, outcome, route, saving,
                   lastResult, detailVars, indexesVars, metricsVars>>

\* the Save button of a field: rendered if editValue is truthy, disabled
\* while the mutation is pending
SaveField(k) ==
    /\ OnPage("/config")
    /\ HasInput(k)
    /\ editValues[k] \notin {Undefined, ""}
    /\ saving = NoSave
    /\ saving' = SaveFieldPatch(k, editValues)
    /\ lastEvent' = Event("saveField", k.field)
    /\ UNCHANGED <<graphVars, store, storage, inflight, outcome, route,
                   editValues, lastResult, detailVars, indexesVars, metricsVars>>

\* the Save All Changes button
SaveAll ==
    /\ OnPage("/config")
    /\ HasEdits(editValues)
    /\ saving = NoSave
    /\ SaveAllPatch(editValues).sections # {}
    /\ saving' = SaveAllPatch(editValues)
    /\ lastEvent' = Event("saveAll", NoId)
    /\ UNCHANGED <<graphVars, store, storage, inflight, outcome, route,
                   editValues, lastResult, detailVars, indexesVars, metricsVars>>

\* setConfig settles: onSuccess sets lastResult and setEditValues({}),
\* onError sets lastResult to null
SaveSettle(ok) ==
    /\ OnPage("/config")
    /\ saving # NoSave
    /\ saving' = NoSave
    /\ editValues' = IF ok THEN NoEdits ELSE editValues
    /\ lastResult' = IF ok THEN "ok" ELSE Null
    /\ lastEvent' = Event("saveSettled", IF ok THEN "ok" ELSE "error")
    /\ UNCHANGED <<graphVars, store, storage, inflight, outcome, route,
                   detailVars, indexesVars, metricsVars>>

---------------------------------------------------------------------------
(* The UserDetail page: the confirm dialog *)

Actions == {"wake", "sleep", "reset", "delete"}

\* ACTION_META[action].requireType
RequireType(action) == action = "delete"

\* what the user can type into the dialog's input
InputTexts == {"", "delete", "DELETE"}

\* a Delete button that leaves confirmInput as it is
OpenInputKeep(action, input) == input

\* confirmInput after the button of an action: Delete sets it to '', the
\* other buttons leave it
OpenInput(action, input) == IF action = "delete" THEN "" ELSE input

\* the Wake, Sleep, Reset or Delete button of the header (the dialog does
\* not take the keyboard focus away from them while it is open)
OpenAction(action) ==
    /\ OnPage("/users/:indexId")
    /\ confirmAction' = action
    /\ confirmInput' = OpenInput(action, confirmInput)
    /\ lastEvent' = Event("open", action)
    /\ UNCHANGED <<graphVars, store, storage, inflight, outcome, route,
                   mutations, configVars, indexesVars, metricsVars>>

\* the X and the Cancel button of the dialog
CloseDialog ==
    /\ OnPage("/users/:indexId")
    /\ confirmAction # Null
    /\ confirmAction' = Null
    /\ confirmInput' = ""
    /\ lastEvent' = Event("close", confirmAction)
    /\ UNCHANGED <<graphVars, store, storage, inflight, outcome, route,
                   mutations, configVars, indexesVars, metricsVars>>

\* the input of the dialog, rendered if meta.requireType
TypeInput(text) ==
    /\ OnPage("/users/:indexId")
    /\ confirmAction # Null
    /\ RequireType(confirmAction)
    /\ confirmInput' = text
    /\ lastEvent' = Event("type", confirmAction)
    /\ UNCHANGED <<graphVars, store, storage, inflight, outcome, route,
                   confirmAction, mutations, configVars, indexesVars,
                   metricsVars>>

\* the Confirm button, disabled if requireType and confirmInput !== 'DELETE':
\* executeConfirmedAction calls mutate() of the action's mutation
Confirm ==
    /\ OnPage("/users/:indexId")
    /\ confirmAction # Null
    /\ RequireType(confirmAction) => confirmInput = "DELETE"
    /\ mutations' = mutations \cup {confirmAction}
    /\ lastEvent' = Event("mutate", confirmAction)
    /\ UNCHANGED <<graphVars, store, storage, inflight, outcome, route,
                   confirmAction, confirmInput, configVars, indexesVars,
                   metricsVars>>

\* the request of a mutation settles: onSuccess of wake, sleep and reset is
\* setConfirmAction(null), that of delete is navigate('/users'); there is
\* no onError
MutationSettle(action, ok) ==
    /\ OnPage("/users/:indexId")
    /\ action \in mutations
    /\ lastEvent' = Event(IF ok THEN "mutated" ELSE "mutateFailed", action)
    /\ IF ok /\ action = "delete"
       THEN RouteChange(GuardedPath("/users", store))
       ELSE /\ mutations' = mutations \ {action}
            /\ confirmAction' = IF ok THEN Null ELSE confirmAction
            /\ UNCHANGED <<route, confirmInput, configVars, indexesVars,
                           metricsVars>>
    /\ UNCHANGED <<graphVars, store, storage, inflight, outcome>>

---------------------------------------------------------------------------
(* The Indexes page: filter and pagination *)

PAGE_SIZE == 10

\* a uuid is a sequence of characters; entry i of a kind
Uuid(kind, i) == <<kind, "-", ToString(i)>>

\* a registry answer: na entries a-i followed by nb entries B-i
Entries(na, nb) ==
    [i \in 1..(na + nb) |-> IF i <= na THEN Uuid("a", i) ELSE Uuid("B", i)]

Registries ==
    {Entries(na, nb) : na \in {0, 1, PAGE_SIZE, PAGE_SIZE + 1, MaxEntries},
                       nb \in {0, 2}}

\* what the user can leave in the filter input
FilterTexts == {<<>>, <<" ">>, <<"a">>, <<"A">>, <<"b">>, <<"z">>}

RECURSIVE TrimLeft(_)
TrimLeft(text) ==
    IF text # <<>> /\ Head(text) = " " THEN TrimLeft(Tail(text)) ELSE text

RECURSIVE TrimRight(_)
TrimRight(text) ==
    IF text # <<>> /\ text[Len(text)] = " "
    THEN TrimRight(SubSeq(text, 1, Len(text) - 1))
    ELSE text

\* String.prototype.trim
Trim(text) == TrimRight(TrimLeft(text))

Lower(c) ==
    CASE c = "A" -> "a"
      [] c = "B" -> "b"
      [] OTHER -> c

\* String.prototype.toLowerCase
ToLowerCase(text) == [i \in 1..Len(text) |-> Lower(text[i])]

\* String.prototype.includes
Includes(text, q) ==
    \E i \in 0..(Len(text) - Len(q)) : SubSeq(text, i + 1, i + Len(q)) = q

\* filtered: all entries if filterText.trim() is empty, else those whose
\* lower-cased uuid includes the lower-cased filter text
Filtered(entries, text) ==
    IF Trim(text) = <<>> THEN entries
    ELSE SelectSeq(entries,
                   LAMBDA e : Includes(ToLowerCase(e), ToLowerCase(text)))

\* Math.ceil(n / d)
CeilDiv(n, d) == (n + d - 1) \div d

\* totalPages of a filtered list of n entries
TotalPages(n) == Max(1, CeilDiv(n, PAGE_SIZE))

\* a page index that is used as it is
SafePageKeep(p, total) == p

\* safePage
SafePage(p, total) == Min(p, total - 1)

\* Array.prototype.slice(from, to) with 0 <= from <= to
Slice(list, from, to) == SubSeq(list, from + 1, Min(to, Len(list)))

\* what the page shows of the state (entries, text, p)
ShownPages(entries, text) == TotalPages(Len(Filtered(entries, text)))
ShownPage(entries, text, p) == SafePage(p, ShownPages(entries, text))
Paged(entries, text, p) ==
    Slice(Filtered(entries, text),
          ShownPage(entries, text, p) * PAGE_SIZE,
          (ShownPage(entries, text, p) + 1) * PAGE_SIZE)

\* the registry query is answered (the 5 s refetch, or after a create or a
\* delete): entries may have come and gone
RegistryRefresh(entries) ==
    /\ OnPage("/users")
    /\ registry' = entries
    /\ lastEvent' = Event("refresh", NoId)
    /\ UNCHANGED <<graphVars, store, storage, inflight, outcome, route,
                   filterText, page, configVars, detailVars, metricsVars>>

\* the filter input changes: setFilterText, setPage(0)
FilterInput(text) ==
    /\ OnPage("/users")
    /\ text # filterText
    /\ filterText' = text
    /\ page' = 0
    /\ lastEvent' = Event("filter", NoId)
    /\ UNCHANGED <<graphVars, store, storage, inflight, outcome, route,
                   registry, configVars, detailVars, metricsVars>>

\* the previous-page button: rendered if totalPages > 1, disabled on page 0
PrevPage ==
    /\ OnPage("/users")
    /\ ShownPages(registry, filterText) > 1
    /\ ShownPage(registry, filterText, page) # 0
    /\ page' = Max(0, ShownPage(registry, filterText, page) - 1)
    /\ lastEvent' = Event("prevPage", NoId)
    /\ UNCHANGED <<graphVars, store, storage, inflight, outcome, route,
                   registry, filterText, configVars, detailVars, metricsVars>>

\* the next-page button: rendered if totalPages > 1, disabled on the last
NextPage ==
    /\ OnPage("/users")
    /\ ShownPages(registry, filterText) > 1
    /\ ShownPage(registry, filterText, page) < ShownPages(registry, filterText) - 1
    /\ page' = Min(ShownPages(registry, filterText) - 1,
                   ShownPage(registry, filterText, page) + 1)
    /\ lastEvent' = Event("nextPage", NoId)
    /\ UNCHANGED <<graphVars, store, storage, inflight, outcome, route,
                   registry, filterText, configVars, detailVars, metricsVars>>

---------------------------------------------------------------------------
(* useMetricsHistory *)

\* stats.pool?.total_created ?? 0 of a stats update
Counters == {0, 1, 3}

\* opsPerInterval without the clamp
OpsSigned(prev, totalCreated) ==
    IF prev # NoPrev THEN totalCreated - prev ELSE 0

\* ops: Math.max(0, totalCreated - prevCreated.current), 0 if it is null
Ops(prev, totalCreated) ==
    IF prev # NoPrev THEN Max(0, totalCreated - prev) ELSE 0

\* Array.prototype.slice(-n): the last n elements, the whole array for -0
SliceLast(list, n) ==
    IF n = 0 THEN list ELSE SubSeq(list, Max(1, Len(list) - n + 1), Len(list))

\* the updater of setHistory
Window(prev, point, mp) ==
    IF Len(Append(prev, point)) > mp
    THEN SliceLast(Append(prev, point), mp)
    ELSE Append(prev, point)

\* the effect of [stats, maxPoints] runs for a new stats object
StatsUpdate(totalCreated) ==
    /\ OnPage("/metrics")
    /\ tickRef < MaxUpdates
    /\ prevCreated' = totalCreated
    /\ tickRef' = tickRef + 1
    /\ history' = Window(history,
                         [time |-> tickRef, totalCreated |-> totalCreated,
                          opsPerInterval |-> Ops(prevCreated, totalCreated)],
                         maxPoints)
    /\ arrivals' = Append(arrivals, totalCreated)
    /\ lastEvent' = Event("stats", NoId)
    /\ UNCHANGED <<graphVars, store, storage, inflight, outcome, route,
                   maxPoints, configVars, detailVars, indexesVars>>

---------------------------------------------------------------------------

Next ==
    \/ \E n \in SUBSET Ids, es \in EdgeLists : Snapshot(n, es)
    \/ \E w \in Widths : Resize(w)
    \/ Unmount
    \/ Tick
    \/ \E t \in timers : FireTimer(t)
    \/ AnimEnd
    \/ ResetView
    \/ \E tr \in UserTransforms : UserZoom(tr)
    \/ \E id \in Ids : ClickNode(id)
    \/ ClickBackground
    \/ ClosePanel
    \/ ToggleAutoRotate
    \/ RotateTick
    \/ CameraInteract
    \/ ManualFit

Spec == Init /\ [][Next]_vars

\* the events that can change the selection or what is drawn as selected:
\* clicks on nodes and background, the panel's close button, and renders
\* (snapshots, resizes, unmount)
NextSelection ==
    \/ \E n \in SUBSET Ids, es \in EdgeLists : Snapshot(n, es)
    \/ \E w \in Widths : Resize(w)
    \/ Unmount
    \/ \E id \in Ids : ClickNode(id)
    \/ ClickBackground
    \/ ClosePanel

SpecSelection == Init /\ [][NextSelection]_vars

\* the events of a drag: the gestures, the ticks of the simulation, and the
\* renders that rebuild the scene under a gesture
NextDrag ==
    \/ \E n \in SUBSET Ids, es \in EdgeLists : Snapshot(n, es)
    \/ \E w \in Widths : Resize(w)
    \/ Unmount
    \/ Tick
    \/ \E p \in Pointers, id \in Ids : DragStart(p, id)
    \/ \E g \in gestures, pos \in PointerPositions : DragMove(g, pos)
    \/ \E g \in gestures : DragEnd(g)

SpecDrag == Init /\ [][NextDrag]_vars

\* the events of a hover: the pointer entering and leaving circles, the
\* frames of the transitions, and what can happen meanwhile: clicks that
\* change the selection and snapshots that rebuild the scene
NextHover ==
    \/ \E n \in SUBSET Ids, es \in EdgeLists : Snapshot(n, es)
    \/ Unmount
    \/ \E id \in Ids : ClickNode(id)
    \/ ClosePanel
    \/ \E id \in Ids : MouseOver(id)
    \/ \E id \in Ids : MouseOut(id)
    \/ \E id \in Ids : HoverFrame(id)
    \/ \E id \in Ids : HoverEnd(id)

SpecHover == Init /\ [][NextHover]_vars

\* the auth store in a page without a graph
InitAuth == NoGraph /\ AppInit(<<>>)

NextAuth ==
    \/ \E u \in Users, p \in Passwords, url \in Urls : Login(u, p, url)
    \/ \E req \in inflight, ans \in LoginAnswers : LoginSettle(req, ans)
    \/ Logout
    \/ \E url \in Urls : SetServerUrl(url)
    \/ Reload
    \/ \E path \in Paths : Navigate(path)

SpecAuth == InitAuth /\ [][NextAuth]_vars

\* the client in a page without a graph: calls and their answers
NextClient ==
    \/ \E m \in Methods : ClientCall(m)
    \/ \E req \in inflight, ans \in Answers : ClientSettle(req, ans)

SpecClient == InitAuth /\ [][NextClient]_vars

\* the session and the client together: logins, logouts and calls of the
\* client's methods
NextSession ==
    \/ \E u \in Users, p \in Passwords : Login(u, p, store.serverUrl)
    \/ \E req \in {r \in inflight : r.op = "login"}, ans \in LoginAnswers :
          LoginSettle(req, ans)
    \/ Logout
    \/ \E m \in Methods : ClientCall(m)
    \/ \E req \in {r \in inflight : r.op # "login"}, ans \in Answers :
          ClientSettle(req, ans)

SpecSession == InitAuth /\ [][NextSession]_vars

\* the Config page
InitConfig == PageInit("/config") /\ PagesInit

NextConfig ==
    \/ \E k \in Config, text \in EditTexts : FieldChange(k, text)
    \/ \E k \in Config : SaveField(k)
    \/ SaveAll
    \/ \E ok \in BOOLEAN : SaveSettle(ok)

SpecConfig == InitConfig /\ [][NextConfig]_vars

\* the UserDetail page
InitDetail == PageInit("/users/:indexId") /\ PagesInit

NextDetail ==
    \/ \E action \in Actions : OpenAction(action)
    \/ CloseDialog
    \/ \E text \in InputTexts : TypeInput(text)
    \/ Confirm
    \/ \E action \in mutations, ok \in BOOLEAN : MutationSettle(action, ok)

SpecDetail == InitDetail /\ [][NextDetail]_vars

\* the Indexes page
InitIndexes == PageInit("/users") /\ PagesInit

NextIndexes ==
    \/ \E entries \in Registries : RegistryRefresh(entries)
    \/ \E text \in FilterTexts : FilterInput(text)
    \/ PrevPage
    \/ NextPage

SpecIndexes == InitIndexes /\ [][NextIndexes]_vars

\* a page that calls useMetricsHistory with some maxPoints
InitMetrics ==
    /\ PageInit("/metrics")
    /\ ConfigInit /\ DetailInit /\ IndexesInit
    /\ \E mp \in 0..MaxPoints : MetricsInit(mp)

NextMetrics == \E totalCreated \in Counters : StatsUpdate(totalCreated)

SpecMetrics == InitMetrics /\ [][NextMetrics]_vars

\* a renderer is mounted with nodes a and b and fed snapshots of edges of
\* every weight and co-fire count
InitLinks ==
    /\ \E rd \in Renderers, es \in LinkLists, w \in Widths :
          GraphInit(rd, Ids, es, w)
    /\ AppInit(<<>>)

NextLinks == \E es \in LinkLists : Snapshot(Ids, es)

SpecLinks == InitLinks /\ [][NextLinks]_vars

---------------------------------------------------------------------------
(* Derived views *)

\* the stats overlay: "{nodes.length} neurons, {edges.length} synapses"
StatsEdgeCount == Len(edges)

\* the edges of the snapshot whose endpoints are both nodes of the snapshot
ValidEdges == {i \in DOMAIN edges : ~Dangling(nodes, edges[i])}

\* fits waiting in a timeout plus the fit transition in flight
PendingFits ==
    Cardinality({t \in timers : t.kind = "fit"}) +
    (IF svgAnim.kind = "fit" THEN 1 ELSE 0)

---------------------------------------------------------------------------
(* Claims *)

\* C1: in BrainViz an entity whose id is in the snapshot before and after a
\* snapshot update keeps its simulation position, velocity and pinned state.
C1_SnapshotKeepsRetained ==
    [][(renderer = "BrainViz" /\ lastEvent'.kind = "snapshot")
          => \A id \in (DOMAIN sim) \cap (DOMAIN sim') : sim'[id] = sim[id]]_vars

\* C2: an edge with an endpoint outside the node set is dropped silently:
\* no error, no simulation link for it, and it is not in the edge count shown.
C2_DanglingDroppedSilently ==
    /\ ~crashed
    /\ scene # 0 =>
         \A i \in DOMAIN SimLinks(edges) : ~Dangling(nodes, SimLinks(edges)[i])
    /\ Displayed => StatsEdgeCount = Cardinality(ValidEdges)

\* C3: at most one entity is drawn as selected, and a click on entity B
\* while another entity A is selected leaves exactly B selected.
C3_SelectionSingle ==
    /\ Cardinality(highlighted) <= 1
    /\ (lastEvent.kind = "clickNode" /\ lastEvent.prev \in Ids
            /\ lastEvent.prev # lastEvent.id)
         => (selected = lastEvent.id /\ highlighted = {lastEvent.id})

\* B was clicked while A was selected
C3_Witness ==
    /\ lastEvent = ClickEvent("b", "a")
    /\ selected = "b"

\* C4: a click on the selected entity leaves nothing selected, a click on
\* another entity selects that one.
C4_ClickToggles ==
    lastEvent.kind = "clickNode"
      => selected = (IF lastEvent.prev = lastEvent.id THEN NoId ELSE lastEvent.id)

\* C5: a click on the background leaves nothing selected.
C5_BackgroundDeselects ==
    lastEvent.kind = "clickBackground" => selected = NoId

\* C6: after a snapshot without the selected entity the selection is empty and
\* the panel shows no entity that is gone; a snapshot never makes an entity
\* appear in the panel.
C6_SelectionFollowsRemoval ==
    /\ [](lastEvent.kind = "snapshot"
            => /\ selected \in Ids => selected \in nodes
               /\ PanelEntity \in Ids => PanelEntity \in nodes)
    /\ [][(lastEvent'.kind = "snapshot" /\ PanelEntity = NoId)
            => PanelEntity' = NoId]_vars

\* C7: no timer or animation callback of a torn-down scene runs.
C7_NoCallbackAfterTeardown ==
    lastEvent.kind \notin {"staleCallback", "staleFitDone"}

\* C8: at most one fit-to-content is pending or in flight.
C8_FitDoesNotQueue == PendingFits <= 1

\* C9: when the Reset View animation has completed, the scene group has the
\* identity transform.
C9_ResetGivesIdentity ==
    lastEvent.kind = "resetDone" => gTransform = Identity

\* C10: a resize does not recreate the simulation and leaves every entity's
\* position, velocity and pinned state as it was.
C10_ResizeKeepsSimulation ==
    [][lastEvent'.kind = "resize" => (runs' = runs /\ sim' = sim)]_vars

\* C11: in NeuralGraph3D a manual camera interaction (orbit drag or zoom)
\* leaves auto-rotate off, and while auto-rotate is off the rotation interval
\* is not set, so it does not move the camera.
C11_OrbitYieldsToUser ==
    /\ lastEvent.kind = "cameraInteract" => ~autoRotate
    /\ ~autoRotate => ~rotating

\* C12: in BrainViz drag start pins the node where it is and, being the first
\* active gesture, sets the alpha target to 0.3; a drag move pins it at the
\* pointer; drag end unpins it and, no gesture being left, sets the alpha
\* target to 0; whenever no gesture is active on the scene, no node is pinned
\* and the alpha target is 0, also with two pointers dragging at once.
C12_DragPinsAndReleases ==
    /\ []((renderer = "BrainViz" /\ ActiveGestures(scene) = {})
            => (alphaTarget = 0 /\ \A id \in DOMAIN sim : ~sim[id].pinned))
    /\ []((lastEvent.kind = "dragStart" /\ lastEvent.live)
            => /\ sim[lastEvent.id].pinned
               /\ sim[lastEvent.id].fx = lastEvent.x
               /\ sim[lastEvent.id].fy = lastEvent.y
               /\ alphaTarget = 30)
    /\ [][(lastEvent'.kind = "dragStart" /\ lastEvent'.live)
            => (lastEvent'.x = sim[lastEvent'.id].x
                  /\ lastEvent'.y = sim[lastEvent'.id].y)]_vars
    /\ []((lastEvent.kind = "dragMove" /\ lastEvent.live)
            => /\ sim[lastEvent.id].pinned
               /\ sim[lastEvent.id].fx = lastEvent.x
               /\ sim[lastEvent.id].fy = lastEvent.y)
    /\ []((lastEvent.kind = "dragEnd" /\ lastEvent.live)
            => /\ ~sim[lastEvent.id].pinned
               /\ lastEvent.active = 0 => alphaTarget = 0)

\* a node was dragged to the pointer and released, and no gesture is left
C12_Witness ==
    /\ lastEvent.kind = "dragEnd"
    /\ lastEvent.live
    /\ gestures = {}
    /\ sim[lastEvent.id].x = 310
    /\ ~sim[lastEvent.id].pinned
    /\ alphaTarget = 0

\* C13: the supplied position is only a hint: outside a drag no node of the
\* 2D simulation is pinned, and no node handed to the 3D force engine has a
\* fixed coordinate.
C13_PositionIsHint ==
    /\ (renderer = "BrainViz" /\ ActiveGestures(scene) = {})
          => \A id \in DOMAIN sim : ~sim[id].pinned
    /\ (renderer = "NeuralGraph3D" /\ Displayed)
          => \A id \in nodes : FixedAxes3D(id) = {}

\* C14: in BrainViz and NeuralGraph3D the number of particles on every edge
\* is min(ceil(coFireCount / 2), 5): 0 for coFireCount 0, 5 for coFireCount 10.
C14_ParticleCount ==
    (renderer \in {"BrainViz", "NeuralGraph3D"} /\ Displayed)
      => \A i \in DOMAIN edges :
            ParticlesOnEdge(i) = Min((edges[i].coFireCount + 1) \div 2, 5)

\* C15: in every renderer an edge of smaller weight is drawn no wider and no
\* more opaque than an edge of larger weight, whatever the co-fire counts.
C15_EdgeMonotone ==
    Displayed
      => \A i, j \in DOMAIN edges :
            edges[i].weight < edges[j].weight
              => /\ StrokeWidth(renderer, edges[i]) <= StrokeWidth(renderer, edges[j])
                 /\ StrokeOpacity(renderer, edges[i]) <= StrokeOpacity(renderer, edges[j])

\* C16: in BrainViz a node circle that the pointer is not over and on which
\* no transition is left has its pre-hover radius 8 + 1.5 * accessCount and
\* the glow filter exactly when energy > 0.8, after any sequence of hover
\* events, selection changes and snapshots.
C16_HoverReverts ==
    renderer = "BrainViz"
      => \A id \in DOMAIN circles :
            (~circles[id].over /\ circles[id].anim.phase = "none")
              => /\ circles[id].r = 16 + 3 * AccessCount(id)
                 /\ circles[id].filter = "glow" <=> Energy(id) > 80
                 /\ circles[id].filter \in {"glow", "none"}

\* the transition of a hover-exit on node a has ended
C16_Witness ==
    /\ lastEvent = Event("hoverOutDone", "a")
    /\ "a" \in DOMAIN circles
    /\ ~circles["a"].over
    /\ circles["a"].r = 16
    /\ circles["a"].filter = "glow"

\* C17: logout leaves isAuthenticated false, user and password null, and
\* serverUrl as it was.
C17_LogoutClears ==
    [][lastEvent'.kind = "logout"
         => store' = AuthState(FALSE, Null, Null, store.serverUrl)]_vars

\* admin has logged out of a store whose serverUrl is not the default
C17_Witness ==
    /\ lastEvent = StoreEvent("logout", "admin")
    /\ store = AuthState(FALSE, Null, Null, "http://custom:9090")

\* C18: login never throws; it returns true exactly when the response is ok,
\* and then isAuthenticated, user, password and serverUrl are the values
\* given; on a response that is not ok or a failed fetch it returns false
\* and leaves the store as it was.
C18_LoginOutcome ==
    /\ [](outcome.req.op = "login"
            => /\ outcome.settled = "resolved"
               /\ outcome.value = "true" <=> IsOk(outcome.answer.status)
               /\ outcome.value \in {"true", "false"})
    /\ [][lastEvent'.kind = "loginSettled"
            => IF outcome'.value = "true"
               THEN store' = AuthState(TRUE, outcome'.req.user,
                                       outcome'.req.password,
                                       outcome'.req.serverUrl)
               ELSE store' = store]_vars

\* a login was refused while the store held the session of an earlier login
C18_Witness ==
    /\ lastEvent.kind = "loginSettled"
    /\ outcome.value = "false"
    /\ outcome.answer.status = 401
    /\ store.isAuthenticated
    /\ store.user # outcome.req.user

\* C19: a reload of the page keeps the session of a login: the user, the
\* password and the authenticated state of the store are those before it.
C19_SessionSurvivesReload ==
    [][(lastEvent'.kind = "reload" /\ store.isAuthenticated)
         => /\ store'.isAuthenticated
            /\ store'.user = store.user
            /\ store'.password = store.password]_vars

\* C20: when the server answers a method of the client with a status that
\* is not ok, the method's promise rejects: with a QubicDBError carrying the
\* envelope's code and status if the body is an envelope with a code, else
\* with an Error naming the HTTP status.
C20_NonOkRejects ==
    (outcome.req.op \in Methods /\ outcome.answer.status # 0
        /\ ~IsOk(outcome.answer.status))
      => /\ outcome.settled = "rejected"
         /\ outcome.answer.body = "envelope"
              => /\ outcome.value = "QubicDBError"
                 /\ outcome.code = EnvelopeCode(outcome.answer.status)
                 /\ outcome.status = EnvelopeStatus(outcome.answer.status)
         /\ outcome.answer.body # "envelope"
              => /\ outcome.value = "Error"
                 /\ outcome.status = outcome.answer.status

\* C21: every request of an admin method (an /admin/* route or /v1/config)
\* sent while the store is authenticated carries the Basic header of the stored
\* user and password, and no request sent while it is not authenticated
\* carries a header.
C21_AdminRequestsCarryAuth ==
    [][lastEvent'.kind = "call" =>
         \A r \in inflight' \ inflight :
            /\ (store.isAuthenticated /\ r.op \in AdminMethods)
                 => (r.user = store.user /\ r.password = store.password)
            /\ ~store.isAuthenticated => (r.user = Null /\ r.password = Null)]_vars

\* C22: while isAuthenticated is false no page but Login is on screen; a
\* navigation to a route other than /login while unauthenticated, and a
\* logout from any page, end at /login.
C22_ProtectedRoutes ==
    /\ [](~store.isAuthenticated => RenderedPage(route, store) \in {"Login", "none"})
    /\ []((lastEvent.kind = "navigate" /\ lastEvent.id \in ProtectedPaths
              /\ ~store.isAuthenticated) => route = LoginPath)
    /\ [][(lastEvent'.kind = "logout" /\ RenderedPage(route, store) # "none")
            => route' = LoginPath]_vars

\* a navigation to /metrics without a session has ended at /login
C22_Witness ==
    /\ lastEvent = Event("navigate", "/metrics")
    /\ ~store.isAuthenticated
    /\ route = LoginPath

\* the runtime-editable fields of the README
RuntimeEditable(section, field) ==
    \/ section \in {"lifecycle", "daemons"}
    \/ Key(section, field) \in
         {Key("worker", "maxIdleTime"), Key("registry", "enabled"),
          Key("matrix", "maxNeurons"), Key("security", "allowedOrigins"),
          Key("security", "maxRequestBody"), Key("vector", "alpha")}

\* C23: every patch the Config page sends holds only runtime-editable
\* fields, no field of the sections server, admin and storage, no field
\* whose edit value is empty, and no empty section.
C23_RuntimeConfigScope ==
    saving # NoSave =>
      /\ \A f \in saving.fields :
            /\ RuntimeEditable(f.section, f.field)
            /\ f.section \notin READONLY_SECTIONS
            /\ f.raw \notin {Undefined, ""}
            /\ f.section \in saving.sections
      /\ \A sec \in saving.sections :
            /\ sec \notin READONLY_SECTIONS
            /\ \E f \in saving.fields : f.section = sec

\* Save All has sent a patch of two sections while a third field's edit
\* is empty
C23_Witness ==
    /\ saving.kind = "all"
    /\ saving.sections = {"lifecycle", "security"}
    /\ editValues[Key("matrix", "maxNeurons")] = ""

\* C24: while the store is authenticated its serverUrl is that of the login
\* that was accepted.
C24_CredentialsStayWithServer ==
    (store.isAuthenticated /\ outcome.req.op = "login" /\ outcome.value = "true")
      => store.serverUrl = outcome.req.serverUrl

\* C25: a login response that arrives after a logout (the login was in
\* flight when logout was called) does not authenticate the store.
C25_LogoutWinsOverLogin ==
    [][(lastEvent.kind = "logout" /\ lastEvent'.kind = "loginSettled")
         => (~store'.isAuthenticated /\ store'.user = Null
               /\ store'.password = Null)]_vars

\* C26: whenever NeuralGraph3D displays a non-empty graph and autoRotate is
\* true, the rotate interval is set.
C26_AutoRotateRuns ==
    (renderer = "NeuralGraph3D" /\ Displayed /\ nodes # {} /\ autoRotate)
      => rotating

\* C27: when the per-field Save of a field settles, with success or with
\* failure, the pending edit of every other field is what it was.
C27_SaveFieldKeepsOthers ==
    [][(saving.kind = "field" /\ saving' = NoSave)
         => \A k \in Config \ {saving.key} : editValues'[k] = editValues[k]]_vars

\* C28: adminDeleteIndex is requested only while the delete dialog is open
\* with the input DELETE, and the input is empty whenever the delete dialog
\* opens.
C28_DeleteNeedsTyping ==
    /\ [][lastEvent'.kind = "mutate" /\ lastEvent'.id = "delete"
            => (confirmAction = "delete" /\ confirmInput = "DELETE")]_vars
    /\ [][lastEvent'.kind = "open" /\ lastEvent'.id = "delete"
            => (confirmAction' = "delete" /\ confirmInput' = "")]_vars

\* the delete was requested from the dialog with DELETE typed, while the
\* mutation of an action confirmed earlier is still pending
C28_Witness ==
    /\ lastEvent = Event("mutate", "delete")
    /\ confirmAction = "delete"
    /\ confirmInput = "DELETE"
    /\ mutations = {"wake", "delete"}

\* C29: the page index on display is within [0, totalPages - 1], the page
\* shows at most 10 entries and at least one if the filtered list is not
\* empty, and a change of the filter text shows the first page.
C29_PaginationValid ==
    /\ ShownPage(registry, filterText, page) \in
         0..(ShownPages(registry, filterText) - 1)
    /\ Len(Paged(registry, filterText, page)) <= 10
    /\ Filtered(registry, filterText) # <<>>
         => Len(Paged(registry, filterText, page)) >= 1
    /\ lastEvent.kind = "filter"
         => (page = 0 /\ ShownPage(registry, filterText, page) = 0)

\* a refresh has left fewer pages than the page the user was on
C29_Witness ==
    /\ lastEvent.kind = "refresh"
    /\ page = 2
    /\ ShownPages(registry, filterText) = 1
    /\ Len(Paged(registry, filterText, page)) = 1

\* C30: for maxPoints >= 1 the history holds the last min(maxPoints, n) of
\* the n points appended, in order, with time strictly increasing, and the
\* opsPerInterval of each is max(0, totalCreated minus that of the update
\* before), 0 for the first.
C30_SlidingWindow ==
    maxPoints >= 1 =>
      /\ Len(history) = Min(maxPoints, Len(arrivals))
      /\ \A i \in 1..Len(history) :
            LET j == Len(arrivals) - Len(history) + i
            IN  /\ history[i].time = j - 1
                /\ history[i].totalCreated = arrivals[j]
                /\ history[i].opsPerInterval =
                     (IF j = 1 THEN 0 ELSE Max(0, arrivals[j] - arrivals[j - 1]))
                /\ history[i].opsPerInterval >= 0
      /\ \A i \in 1..(Len(history) - 1) : history[i].time < history[i + 1].time

\* the window of two points has slid and the counter has gone down
C30_Witness ==
    /\ maxPoints = 2
    /\ Len(arrivals) = 4
    /\ arrivals[3] = 3
    /\ arrivals[4] = 1
    /\ history[2].opsPerInterval = 0
    /\ history[1].time = 2

===========================================================================
